---------------------------- MODULE Spec2Model ----------------------------
(***************************************************************************)
(* A model of typyPRISM's Domain (core/Domain.py) and of the               *)
(* solvation_potential calculation (calculate/solvation_potential.py).     *)
(*                                                                         *)
(* Numbers are exact.  A scalar is <<n, d, p, l>> and stands for           *)
(*     (n / d) * pi^p * (IF l = <<>> THEN 1 ELSE ln(l[1] / l[2]))          *)
(* with d > 0 and gcd(n, d) = 1.  <<0, 0, 0, <<>>>> is the non-finite      *)
(* value (nan / inf) that numpy produces instead of raising.               *)
(*                                                                         *)
(* scipy.fftpack.dst is a library routine.  An array is therefore either   *)
(* "plain" (a sequence of scalars), or "dst": post (.) DST_t(inner), the   *)
(* unnormalised sine transform of type t of a plain sequence, multiplied   *)
(* pointwise by post.  The only law of dst that is used is that the        *)
(* unnormalised DST-II and DST-III invert each other up to the factor      *)
(* 2 * N, and that dst is linear.  An array these laws do not evaluate is  *)
(* "opaque".                                                               *)
(*                                                                         *)
(* Three specifications share the definitions: SpecDomain (a Domain, its   *)
(* setters and transforms), SpecMarray (the MatrixArray transforms of a    *)
(* Domain) and SpecCalc (solvation_potential on a solved PRISM object).    *)
(***************************************************************************)
EXTENDS Integers, Sequences, FiniteSets, TLC

VARIABLES
    domain,     \* the Domain object under construction / in use (its attributes)
    alive,      \* TRUE once Domain(...) has returned an object to the caller
    last,       \* the last operation called on the Domain, its arguments and outcome
    sets,       \* how many assignments to dr, dk or length the Domain has received
    ma,         \* a MatrixArray handed to MatrixArray_to_fourier / MatrixArray_to_real
    mlast,      \* the last MatrixArray transform called, the array before it, its outcome
    PRISM,      \* the solved PRISM object: sys.rank, sys.kT, directCorr, totalCorr, omega
    closure,    \* the closure argument of the running solvation_potential call
    pc,         \* the line solvation_potential is about to run
    structureFactor, \* local of solvation_potential
    psi,        \* local of solvation_potential (Unbound until assigned)
    pre,        \* the PRISM fields as they were when the running call started
    psiF,       \* psi as it was handed to MatrixArray_to_real (line 111)
    log,        \* per field: how often the running call transformed it
    raised,     \* the exception that ended the running call ("none" if none)
    returned,   \* the value the call returned (Unbound if none)
    history     \* the outcomes of the finished calls, oldest first

vars == <<domain, alive, last, sets, ma, mlast, PRISM, closure, pc, structureFactor,
          psi, pre, psiF, log, raised, returned, history>>

-----------------------------------------------------------------------------
(* Bounds *)

\* the largest length given to Domain(...) or assigned to domain.length
MaxLen == 3

\* the number of assignments to dr, dk or length one Domain receives
MaxSets == 2

\* the number of grid points of the Domain the MatrixArrays live on
GridLen == 2

\* the number of calls of solvation_potential on one PRISM object
MaxCalls == 2

\* the tables of values a MatrixArray starts from are numbered 0..MaxSeed
MaxSeed == 3

\* Python's None, and the value of an array attribute that was never assigned
None == <<>>

Unset == <<None>>

-----------------------------------------------------------------------------
(* Exact scalars *)

Abs(x) == IF x < 0 THEN 0 - x ELSE x

RECURSIVE GCD(_, _)
GCD(a, b) == IF b = 0 THEN a ELSE GCD(b, a % b)

NoLog == <<>>

NaN == <<0, 0, 0, NoLog>>

Zero == <<0, 1, 0, NoLog>>

IsNaN(x) == x[2] = 0

Norm(n, d, p, l) ==
    IF d = 0 THEN NaN
    ELSE IF n = 0 THEN Zero
    ELSE LET g == GCD(Abs(n), Abs(d))
             s == IF d < 0 THEN 0 - 1 ELSE 1
         IN  <<(s * n) \div g, (s * d) \div g, p, l>>

FromInt(i) == Norm(i, 1, 0, NoLog)

Rat(n, d) == Norm(n, d, 0, NoLog)

One == FromInt(1)

\* np.pi
Pi == <<1, 1, 1, NoLog>>

Mul(x, y) ==
    IF IsNaN(x) \/ IsNaN(y) THEN NaN
    ELSE IF x[4] # NoLog /\ y[4] # NoLog /\ x[1] # 0 /\ y[1] # 0 THEN NaN
    ELSE Norm(x[1] * y[1], x[2] * y[2], x[3] + y[3],
              IF x[4] # NoLog THEN x[4] ELSE y[4])

\* x / y for array elements: numpy yields a non-finite value on division by zero
Div(x, y) ==
    IF IsNaN(x) \/ IsNaN(y) \/ y[1] = 0 \/ y[4] # NoLog THEN NaN
    ELSE Norm(x[1] * y[2], x[2] * y[1], x[3] - y[3], x[4])

Neg(x) == IF IsNaN(x) THEN NaN ELSE <<0 - x[1], x[2], x[3], x[4]>>

Add(x, y) ==
    IF IsNaN(x) \/ IsNaN(y) THEN NaN
    ELSE IF x[1] = 0 THEN y
    ELSE IF y[1] = 0 THEN x
    ELSE IF x[3] # y[3] \/ x[4] # y[4] THEN NaN
    ELSE Norm(x[1] * y[2] + y[1] * x[2], x[2] * y[2], x[3], x[4])

Sub(x, y) == Add(x, Neg(y))

\* np.log(1 + x) of a rational x
Log1p(x) ==
    IF IsNaN(x) \/ x[3] # 0 \/ x[4] # NoLog THEN NaN
    ELSE IF x[1] + x[2] <= 0 THEN NaN
    ELSE IF x[1] = 0 THEN Zero
    ELSE <<1, 1, 0, <<x[1] + x[2], x[2]>>>>

\* the sign of a finite scalar without logarithm
Positive(x) == ~IsNaN(x) /\ x[1] > 0

\* ceil(n / d) for d > 0
Ceil(n, d) == 0 - ((0 - n) \div d)

-----------------------------------------------------------------------------
(* numpy arrays *)

Ones(n) == [i \in 1..n |-> One]

Uniform(s) == \A i \in 1..Len(s) : s[i] = s[1]

Plain(v) == [kind |-> "plain", t |-> 0, v |-> v, post |-> <<>>]

\* an array the laws above do not evaluate
Opaque(t, x) == [kind |-> "opaque", t |-> t, v |-> x.v, post |-> x.post]

IsPlain(x) == x.kind = "plain"

\* c * array and array / c for a coefficient sequence c (elementwise)
ArrMul(c, x) ==
    IF x.kind = "plain" /\ Len(c) = Len(x.v)
        THEN Plain([i \in 1..Len(c) |-> Mul(c[i], x.v[i])])
    ELSE IF x.kind = "dst" /\ Len(c) = Len(x.v)
        THEN [x EXCEPT !.post = [i \in 1..Len(c) |-> Mul(c[i], x.post[i])]]
    ELSE Opaque(0, x)

ArrDiv(x, c) ==
    IF x.kind = "plain" /\ Len(c) = Len(x.v)
        THEN Plain([i \in 1..Len(c) |-> Div(x.v[i], c[i])])
    ELSE IF x.kind = "dst" /\ Len(c) = Len(x.v)
        THEN [x EXCEPT !.post = [i \in 1..Len(c) |-> Div(x.post[i], c[i])]]
    ELSE Opaque(0, x)

\* scipy.fftpack.dst(x, type = t), unnormalised, t in {2, 3}:
\* dst(dst(x, 2), 3) = dst(dst(x, 3), 2) = 2 * N * x and dst is linear
dst(x, t) ==
    IF x.kind = "plain"
        THEN [kind |-> "dst", t |-> t, v |-> x.v, post |-> Ones(Len(x.v))]
    ELSE IF x.kind = "dst" /\ x.t # t /\ Len(x.v) >= 1 /\ Uniform(x.post)
        THEN Plain([i \in 1..Len(x.v) |->
                       Mul(Mul(FromInt(2 * Len(x.v)), x.post[1]), x.v[i])])
    ELSE Opaque(t, x)

\* the number of elements of np.arange: ceil(q) for q = (stop - start) / step
arange_len(q) ==
    IF IsNaN(q) \/ q[3] # 0 \/ q[1] <= 0 THEN 0 ELSE Ceil(q[1], q[2])

\* np.arange(start, stop, step) on exact numbers: ceil((stop - start) / step)
\* elements start + i * step; a zero step is an error
np_arange(start, stop, step) ==
    IF step[1] = 0 THEN [err |-> "ZeroDivisionError", v |-> <<>>]
    ELSE [err |-> "none",
          v |-> [i \in 1..arange_len(Div(Sub(stop, start), step)) |->
                    Add(start, Mul(FromInt(i - 1), step))]]

-----------------------------------------------------------------------------
(* class Domain *)

\* the object __init__ receives: no attribute is set yet
NewDomain ==
    [length |-> None, dr |-> None, dk |-> None, r |-> Unset, k |-> Unset,
     DST_II_coeffs |-> Unset, DST_III_coeffs |-> Unset, long_r |-> Unset]

Raise(obj, e) == [obj |-> obj, err |-> e]

Ok(obj) == [obj |-> obj, err |-> "none"]

\* Domain.build_grid, lines 56-58: the coefficients from r, k, dr and dk
build_coeffs(self) ==
    [self EXCEPT
        !.DST_II_coeffs =
            [i \in 1..Len(self.r) |->
                Mul(Mul(Mul(FromInt(2), Pi), self.r[i]), self.dr)],
        !.DST_III_coeffs =
            [i \in 1..Len(self.k) |->
                Div(Mul(self.k[i], self.dk), Mul(Mul(FromInt(4), Pi), Pi))],
        !.long_r = self.r]

\* Domain.build_grid, line 55 onwards, ka being the value of the np.arange call
build_k(self, ka) ==
    IF ka.err # "none" THEN Raise(self, ka.err)
    ELSE Ok(build_coeffs([self EXCEPT !.k = ka.v]))

\* Domain.build_grid, line 54 onwards, ra being the value of the np.arange call
build_r(self, ra) ==
    IF ra.err # "none" THEN Raise(self, ra.err)
    ELSE build_k([self EXCEPT !.r = ra.v],
                 np_arange(self.dk, Mul(self.dk, FromInt(self.length + 1)), self.dk))

\* Domain.build_grid: the attributes are assigned one after the other, so an
\* exception leaves the ones before it rebuilt and the ones after it stale
build_grid(self) ==
    build_r(self, np_arange(self.dr, Mul(self.dr, FromInt(self.length + 1)), self.dr))

IsZero(x) == x[1] = 0

\* Domain.dr setter: np.pi / (self._dr * self._length) on Python numbers
dr_setter(self, value) ==
    IF IsZero(Mul(value, FromInt(self.length)))
        THEN Raise([self EXCEPT !.dr = value], "ZeroDivisionError")
        ELSE build_grid([self EXCEPT
                            !.dr = value,
                            !.dk = Div(Pi, Mul(value, FromInt(self.length)))])

\* Domain.dk setter
dk_setter(self, value) ==
    IF IsZero(Mul(value, FromInt(self.length)))
        THEN Raise([self EXCEPT !.dk = value], "ZeroDivisionError")
        ELSE build_grid([self EXCEPT
                            !.dk = value,
                            !.dr = Div(Pi, Mul(value, FromInt(self.length)))])

\* Domain.length setter
length_setter(self, value) == build_grid([self EXCEPT !.length = value])

\* Domain.__init__, line 50: build_grid once more after the setter has returned
init_build(set) == IF set.err # "none" THEN set ELSE build_grid(set.obj)

\* __init__ without the check for both spacings: dr wins when both are given
Domain_init_NoBothCheck(length, dr, dk) ==
    IF dr = None /\ dk = None
        THEN Raise([NewDomain EXCEPT !.length = length], "ValueError")
    ELSE IF dr # None
        THEN init_build(dr_setter([NewDomain EXCEPT !.length = length], dr))
    ELSE init_build(dk_setter([NewDomain EXCEPT !.length = length], dk))

\* Domain.__init__
Domain_init(length, dr, dk) ==
    IF dr = None /\ dk = None
        THEN Raise([NewDomain EXCEPT !.length = length], "ValueError")
    ELSE IF dr # None /\ dk # None
        THEN Raise([NewDomain EXCEPT !.length = length], "ValueError")
    ELSE IF dr # None
        THEN init_build(dr_setter([NewDomain EXCEPT !.length = length], dr))
    ELSE init_build(dk_setter([NewDomain EXCEPT !.length = length], dk))

\* Domain.to_fourier
to_fourier(self, array) ==
    ArrDiv(dst(ArrMul(self.DST_II_coeffs, array), 2), self.k)

\* Domain.to_real
to_real(self, array) ==
    ArrDiv(dst(ArrMul(self.DST_III_coeffs, array), 3), self.r)

-----------------------------------------------------------------------------
(* The Domain on its own: construction, the setters, the transforms *)

\* the arrays sampled on a grid of n points that the transforms are tried on
Samples(n) == {[i \in 1..n |-> One], [i \in 1..n |-> FromInt(i)],
               [i \in 1..n |-> Rat(1, i + 1)]}

SpacingInputs == {FromInt(i) : i \in {0 - 1, 0, 1, 2}}

LengthInputs == {0 - 1, 0} \cup (1..MaxLen)

NoArr == Plain(<<>>)

NoCall == [op |-> "none", args |-> <<>>, err |-> "none",
           orig |-> NoArr, out |-> NoArr]

Called(op, args, err) ==
    [op |-> op, args |-> args, err |-> err, orig |-> NoArr, out |-> NoArr]

\* Domain(length, dr, dk)
Construct(length, dr, dk) ==
    /\ ~alive
    /\ \E res \in {Domain_init(length, dr, dk)} :
           /\ domain' = res.obj
           /\ alive' = (res.err = "none")
           /\ last' = Called("__init__", <<length, dr, dk>>, res.err)
    /\ sets' = 0

\* domain.dr = value
SetDr(value) ==
    /\ alive
    /\ sets < MaxSets
    /\ sets' = sets + 1
    /\ \E res \in {dr_setter(domain, value)} :
           /\ domain' = res.obj
           /\ last' = Called("dr", <<value>>, res.err)
    /\ UNCHANGED alive

\* domain.dk = value
SetDk(value) ==
    /\ alive
    /\ sets < MaxSets
    /\ sets' = sets + 1
    /\ \E res \in {dk_setter(domain, value)} :
           /\ domain' = res.obj
           /\ last' = Called("dk", <<value>>, res.err)
    /\ UNCHANGED alive

\* domain.length = value
SetLength(value) ==
    /\ alive
    /\ sets < MaxSets
    /\ sets' = sets + 1
    /\ \E res \in {length_setter(domain, value)} :
           /\ domain' = res.obj
           /\ last' = Called("length", <<value>>, res.err)
    /\ UNCHANGED alive

\* F = domain.to_fourier(f) for an array f sampled on the grid
ToFourier(f) ==
    /\ alive
    /\ Len(domain.r) >= 1
    /\ Len(f) = Len(domain.r)
    /\ Len(domain.k) = Len(domain.r)
    /\ last' = [op |-> "to_fourier", args |-> <<>>, err |-> "none",
                orig |-> Plain(f), out |-> to_fourier(domain, Plain(f))]
    /\ UNCHANGED <<domain, alive, sets>>

\* g = domain.to_real(F) on the array the last to_fourier returned
ToReal ==
    /\ alive
    /\ last.op = "to_fourier"
    /\ last' = [last EXCEPT !.op = "to_real", !.out = to_real(domain, last.out)]
    /\ UNCHANGED <<domain, alive, sets>>

\* the variables of the other parts, which a part leaves alone
domainVars == <<domain, alive, last, sets>>

marrayVars == <<ma, mlast>>

calcVars == <<PRISM, closure, pc, structureFactor, psi, pre, psiF, log, raised,
              returned, history>>

NoMarray == [space |-> "none", rank |-> 0, data |-> <<>>]

NoDomainPart ==
    /\ domain = NewDomain
    /\ alive = FALSE
    /\ last = NoCall
    /\ sets = 0

NoMarrayPart ==
    /\ ma = NoMarray
    /\ mlast = [op |-> "none", before |-> NoMarray, err |-> "none"]

NoCalcPart ==
    /\ PRISM = None
    /\ closure = "none"
    /\ pc = "idle"
    /\ structureFactor = None
    /\ psi = None
    /\ pre = None
    /\ psiF = None
    /\ log = None
    /\ raised = "none"
    /\ returned = None
    /\ history = <<>>

InitDomain == NoDomainPart /\ NoMarrayPart /\ NoCalcPart

NextDomain ==
    \/ \E length \in LengthInputs, dr, dk \in SpacingInputs \cup {None} :
           Construct(length, dr, dk) /\ UNCHANGED <<marrayVars, calcVars>>
    \/ \E value \in SpacingInputs : SetDr(value) /\ UNCHANGED <<marrayVars, calcVars>>
    \/ \E value \in SpacingInputs : SetDk(value) /\ UNCHANGED <<marrayVars, calcVars>>
    \/ \E value \in LengthInputs : SetLength(value) /\ UNCHANGED <<marrayVars, calcVars>>
    \/ \E n \in 1..MaxLen : \E f \in Samples(n) :
           ToFourier(f) /\ UNCHANGED <<marrayVars, calcVars>>
    \/ ToReal /\ UNCHANGED <<marrayVars, calcVars>>

SpecDomain == InitDomain /\ [][NextDomain]_vars

-----------------------------------------------------------------------------
(* MatrixArray: for every ordered pair of site types a column over the grid,  *)
(* and a space tag.  Domain.MatrixArray_to_fourier / _to_real transform it.   *)

Pairs(rank) == (1..rank) \X (1..rank)

MatrixArray(space, rank, data) == [space |-> space, rank |-> rank, data |-> data]

\* MatrixArray_to_fourier that forgets to set the space tag
MatrixArray_to_fourier_KeepTag(self, marray) ==
    IF marray.space = "Fourier" THEN Raise(marray, "ValueError")
    ELSE Ok([marray EXCEPT
                !.data = [ij \in Pairs(marray.rank) |->
                             to_fourier(self, marray.data[ij])]])

\* MatrixArray_to_fourier without the test of the space tag
MatrixArray_to_fourier_NoGuard(self, marray) ==
    Ok([marray EXCEPT
           !.data = [ij \in Pairs(marray.rank) |-> to_fourier(self, marray.data[ij])],
           !.space = "Fourier"])

\* Domain.MatrixArray_to_fourier
MatrixArray_to_fourier(self, marray) ==
    IF marray.space = "Fourier" THEN Raise(marray, "ValueError")
    ELSE Ok([marray EXCEPT
                !.data = [ij \in Pairs(marray.rank) |->
                             to_fourier(self, marray.data[ij])],
                !.space = "Fourier"])

\* Domain.MatrixArray_to_real
MatrixArray_to_real(self, marray) ==
    IF marray.space = "Real" THEN Raise(marray, "ValueError")
    ELSE Ok([marray EXCEPT
                !.data = [ij \in Pairs(marray.rank) |->
                             to_real(self, marray.data[ij])],
                !.space = "Real"])

\* the symmetric table of rank x rank columns over n grid points with the
\* entries seed + i * j + g: the values a solved system may hold
Table(seed, rank, n) ==
    [ij \in Pairs(rank) |->
        Plain([g \in 1..n |-> FromInt(seed + ij[1] * ij[2] + g)])]

Seeds == 0..MaxSeed

Ranks == {1, 2}

\* the Domains the fields live on: GridLen points, one spacing given
Grids ==
    {Domain_init(GridLen, FromInt(1), None).obj,
     Domain_init(GridLen, None, FromInt(2)).obj}

\* a MatrixArray as a solved system holds it: computed in Fourier space and,
\* when tagged Real, brought to Real space by the Domain
Field(self, space, seed, rank) ==
    IF space = "Fourier"
        THEN MatrixArray("Fourier", rank, Table(seed, rank, self.length))
        ELSE MatrixArray_to_real(
                 self, MatrixArray("Fourier", rank, Table(seed, rank, self.length))).obj

MCalled(op, before, err) == [op |-> op, before |-> before, err |-> err]

InitMarray ==
    /\ domain \in Grids
    /\ alive = TRUE
    /\ last = NoCall
    /\ sets = 0
    /\ \E space \in {"Real", "Fourier"}, seed \in Seeds, rank \in Ranks :
           \/ ma = Field(domain, space, seed, rank)
           \/ ma = MatrixArray(space, rank, Table(seed, rank, domain.length))
    /\ mlast = MCalled("none", NoMarray, "none")
    /\ NoCalcPart

\* domain.MatrixArray_to_fourier(marray)
CallToFourier ==
    /\ \E res \in {MatrixArray_to_fourier(domain, ma)} :
           /\ ma' = res.obj
           /\ mlast' = MCalled("MatrixArray_to_fourier", ma, res.err)
    /\ UNCHANGED <<domainVars, calcVars>>

\* domain.MatrixArray_to_real(marray)
CallToReal ==
    /\ \E res \in {MatrixArray_to_real(domain, ma)} :
           /\ ma' = res.obj
           /\ mlast' = MCalled("MatrixArray_to_real", ma, res.err)
    /\ UNCHANGED <<domainVars, calcVars>>

NextMarray == CallToFourier \/ CallToReal

SpecMarray == InitMarray /\ [][NextMarray]_vars

-----------------------------------------------------------------------------
(* MatrixArray arithmetic and structure_factor, which solvation_potential     *)
(* calls: the grid index is a batch dimension of every operation              *)

RECURSIVE SumSeq(_)
SumSeq(s) == IF s = <<>> THEN Zero ELSE Add(Head(s), SumSeq(Tail(s)))

AllPlain(A) == \A ij \in Pairs(A.rank) : IsPlain(A.data[ij])

GridOf(A) == Len(A.data[<<1, 1>>].v)

\* a result that numpy computes from columns the model does not evaluate
OpaqueArray(A) ==
    [A EXCEPT !.data = [ij \in Pairs(A.rank) |-> Opaque(0, A.data[ij])]]

\* MatrixArray.dot: at every grid point the rank x rank matrix product
MatrixArray_dot(A, B) ==
    IF ~(AllPlain(A) /\ AllPlain(B) /\ A.rank = B.rank) THEN OpaqueArray(A)
    ELSE [A EXCEPT !.data =
             [ij \in Pairs(A.rank) |->
                 Plain([g \in 1..GridOf(A) |->
                     SumSeq([a \in 1..A.rank |->
                         Mul(A.data[<<ij[1], a>>].v[g], B.data[<<a, ij[2]>>].v[g])])])]]

\* MatrixArray * MatrixArray: the product entry by entry
MatrixArray_mul(A, B) ==
    IF ~(AllPlain(A) /\ AllPlain(B) /\ A.rank = B.rank) THEN OpaqueArray(A)
    ELSE [A EXCEPT !.data =
             [ij \in Pairs(A.rank) |->
                 Plain([g \in 1..GridOf(A) |->
                     Mul(A.data[ij].v[g], B.data[ij].v[g])])]]

\* MatrixArray + MatrixArray
MatrixArray_add(A, B) ==
    IF ~(AllPlain(A) /\ AllPlain(B) /\ A.rank = B.rank) THEN OpaqueArray(A)
    ELSE [A EXCEPT !.data =
             [ij \in Pairs(A.rank) |->
                 Plain([g \in 1..GridOf(A) |->
                     Add(A.data[ij].v[g], B.data[ij].v[g])])]]

\* MatrixArray * scalar
MatrixArray_scale(A, c) ==
    IF ~AllPlain(A) THEN OpaqueArray(A)
    ELSE [A EXCEPT !.data =
             [ij \in Pairs(A.rank) |->
                 Plain([g \in 1..GridOf(A) |-> Mul(A.data[ij].v[g], c)])]]

\* MatrixArray * M and MatrixArray / M for a rank x rank matrix M of numbers
MatrixArray_times(A, M) ==
    IF ~AllPlain(A) THEN OpaqueArray(A)
    ELSE [A EXCEPT !.data =
             [ij \in Pairs(A.rank) |->
                 Plain([g \in 1..GridOf(A) |-> Mul(A.data[ij].v[g], M[ij])])]]

MatrixArray_over(A, M) ==
    IF ~AllPlain(A) THEN OpaqueArray(A)
    ELSE [A EXCEPT !.data =
             [ij \in Pairs(A.rank) |->
                 Plain([g \in 1..GridOf(A) |-> Div(A.data[ij].v[g], M[ij])])]]

\* np.log(1 + data) on every entry
MatrixArray_log1p(A) ==
    IF ~AllPlain(A) THEN OpaqueArray(A)
    ELSE [A EXCEPT !.data =
             [ij \in Pairs(A.rank) |->
                 Plain([g \in 1..GridOf(A) |-> Log1p(A.data[ij].v[g])])]]

\* structure_factor(PRISM):
\* (totalCorr * pairDensityMatrix + omega) / siteDensityMatrix
structure_factor(P) ==
    MatrixArray_over(
        MatrixArray_add(MatrixArray_times(P.totalCorr, P.pairDensityMatrix), P.omega),
        P.siteDensityMatrix)

-----------------------------------------------------------------------------
(* solvation_potential(PRISM, closure), line by line *)

Unbound == [space |-> "unbound", rank |-> 0, data |-> <<>>]

IsBound(x) == x.space # "unbound"

FieldNames == {"directCorr", "totalCorr", "omega"}

\* line 91 with the assertion compiled away
rank_assert_Off(P) == TRUE

\* line 91: assert PRISM.sys.rank > 1
rank_assert(P) == P.rank > 1

\* lines 93-100 without the test of the space tag
ensure_fourier_Always(self, marray) ==
    [called |-> TRUE, res |-> MatrixArray_to_fourier(self, marray)]

\* lines 93-94, 96-97, 99-100: if X.space == Space.Real: MatrixArray_to_fourier(X)
ensure_fourier(self, marray) ==
    IF marray.space = "Real"
        THEN [called |-> TRUE, res |-> MatrixArray_to_fourier(self, marray)]
        ELSE [called |-> FALSE, res |-> Ok(marray)]

\* line 106 with * in place of dot
psi_HNC_Elementwise(P, S) ==
    MatrixArray_scale(
        MatrixArray_mul(MatrixArray_mul(P.directCorr, S), P.directCorr), Neg(P.kT))

\* line 106: directCorr.dot(structureFactor).dot(directCorr) * -kT
psi_HNC(P, S) ==
    MatrixArray_scale(
        MatrixArray_dot(MatrixArray_dot(P.directCorr, S), P.directCorr), Neg(P.kT))

\* lines 108-109: psi = C.dot(S).dot(C); psi.data = np.log(1 + psi.data) * -kT
psi_PY(P, S) ==
    MatrixArray_scale(
        MatrixArray_log1p(
            MatrixArray_dot(MatrixArray_dot(P.directCorr, S), P.directCorr)),
        Neg(P.kT))

\* lines 105-109: the if / elif has no else, so psi stays unbound otherwise
closure_psi(P, S, c) ==
    IF c = "HNC" THEN psi_HNC(P, S)
    ELSE IF c = "PY" THEN psi_PY(P, S)
    ELSE Unbound

Closures == {"HNC", "PY", "MSA"}

Spaces == {"Real", "Fourier"}

\* site densities 1, 2, ...: the pair and the site density matrices of the system
pairDensityMatrix(rank) == [ij \in Pairs(rank) |-> FromInt(ij[1] * ij[2])]

siteDensityMatrix(rank) ==
    [ij \in Pairs(rank) |->
        FromInt(IF ij[1] = ij[2] THEN ij[1] ELSE ij[1] + ij[2])]

NoLogEntries == [f \in FieldNames |-> 0]

Outcome(c, e, ret, lg) == [closure |-> c, raised |-> e, returned |-> ret, log |-> lg]

InitCalc ==
    /\ domain \in Grids
    /\ alive = TRUE
    /\ last = NoCall
    /\ sets = 0
    /\ NoMarrayPart
    /\ \E rank \in Ranks, seed \in Seeds, sc, st, so \in Spaces :
           PRISM = [rank |-> rank,
                    kT |-> FromInt(2),
                    pairDensityMatrix |-> pairDensityMatrix(rank),
                    siteDensityMatrix |-> siteDensityMatrix(rank),
                    directCorr |-> Field(domain, sc, seed, rank),
                    totalCorr |-> Field(domain, st, seed + 1, rank),
                    omega |-> Field(domain, so, seed + 2, rank)]
    /\ closure = "none"
    /\ pc = "idle"
    /\ structureFactor = Unbound
    /\ psi = Unbound
    /\ psiF = Unbound
    /\ pre = [f \in FieldNames |-> PRISM[f]]
    /\ log = NoLogEntries
    /\ raised = "none"
    /\ returned = Unbound
    /\ history = <<>>

\* the call ends with an exception: nothing is returned
Fail(e) ==
    /\ raised' = e
    /\ pc' = "idle"
    /\ history' = Append(history, Outcome(closure, e, returned, log))

\* solvation_potential(PRISM, closure = c) is called
Call(c) ==
    /\ pc = "idle"
    /\ Len(history) < MaxCalls
    /\ closure' = c
    /\ pc' = "l91"
    /\ pre' = [f \in FieldNames |-> PRISM[f]]
    /\ log' = NoLogEntries
    /\ raised' = "none"
    /\ returned' = Unbound
    /\ structureFactor' = Unbound
    /\ psi' = Unbound
    /\ psiF' = Unbound
    /\ UNCHANGED <<PRISM, history>>

\* line 91
L91 ==
    /\ pc = "l91"
    /\ IF rank_assert(PRISM)
           THEN pc' = "l93" /\ UNCHANGED <<raised, history>>
           ELSE Fail("AssertionError")
    /\ UNCHANGED <<PRISM, closure, structureFactor, psi, pre, psiF, log, returned>>

\* lines 93-94, 96-97 and 99-100, for the field f, continuing at line next
EnsureStep(here, f, next) ==
    /\ pc = here
    /\ \E e \in {ensure_fourier(domain, PRISM[f])} :
           /\ log' = IF e.called THEN [log EXCEPT ![f] = @ + 1] ELSE log
           /\ IF e.res.err = "none"
                  THEN /\ PRISM' = [PRISM EXCEPT ![f] = e.res.obj]
                       /\ pc' = next
                       /\ UNCHANGED <<raised, history>>
                  ELSE /\ raised' = e.res.err
                       /\ pc' = "idle"
                       /\ history' = Append(history,
                              Outcome(closure, e.res.err, returned, log'))
                       /\ UNCHANGED PRISM
    /\ UNCHANGED <<closure, structureFactor, psi, pre, psiF, returned>>

L93 == EnsureStep("l93", "directCorr", "l96")

L96 == EnsureStep("l96", "totalCorr", "l99")

L99 == EnsureStep("l99", "omega", "l102")

\* line 102
L102 ==
    /\ pc = "l102"
    /\ structureFactor' = structure_factor(PRISM)
    /\ pc' = "l105"
    /\ UNCHANGED <<PRISM, closure, psi, pre, psiF, log, raised, returned, history>>

\* lines 105-109
L105 ==
    /\ pc = "l105"
    /\ psi' = closure_psi(PRISM, structureFactor, closure)
    /\ pc' = "l111"
    /\ UNCHANGED <<PRISM, closure, structureFactor, pre, psiF, log, raised, returned,
                   history>>

\* line 111: reading an unbound local raises UnboundLocalError
L111 ==
    /\ pc = "l111"
    /\ IF ~IsBound(psi)
           THEN Fail("UnboundLocalError") /\ UNCHANGED <<psi, psiF>>
           ELSE \E res \in {MatrixArray_to_real(domain, psi)} :
                    IF res.err # "none"
                        THEN Fail(res.err) /\ UNCHANGED <<psi, psiF>>
                        ELSE /\ psi' = res.obj
                             /\ psiF' = psi
                             /\ pc' = "l113"
                             /\ UNCHANGED <<raised, history>>
    /\ UNCHANGED <<PRISM, closure, structureFactor, pre, log, returned>>

\* line 113: return psi
L113 ==
    /\ pc = "l113"
    /\ returned' = psi
    /\ pc' = "idle"
    /\ history' = Append(history, Outcome(closure, raised, psi, log))
    /\ UNCHANGED <<PRISM, closure, structureFactor, psi, pre, psiF, log, raised>>

NextCalc ==
    \/ \E c \in Closures : Call(c) /\ UNCHANGED <<domainVars, marrayVars>>
    \/ L91 /\ UNCHANGED <<domainVars, marrayVars>>
    \/ L93 /\ UNCHANGED <<domainVars, marrayVars>>
    \/ L96 /\ UNCHANGED <<domainVars, marrayVars>>
    \/ L99 /\ UNCHANGED <<domainVars, marrayVars>>
    \/ L102 /\ UNCHANGED <<domainVars, marrayVars>>
    \/ L105 /\ UNCHANGED <<domainVars, marrayVars>>
    \/ L111 /\ UNCHANGED <<domainVars, marrayVars>>
    \/ L113 /\ UNCHANGED <<domainVars, marrayVars>>

SpecCalc == InitCalc /\ [][NextCalc]_vars

-----------------------------------------------------------------------------
(* Properties of the Domain *)

\* dr * dk * length = pi
Relation(self) == Mul(Mul(self.dr, self.dk), FromInt(self.length)) = Pi

AllPositive(self) ==
    /\ self.length > 0
    /\ Positive(self.dr)
    /\ Positive(self.dk)

\* r[i] = i * dr and k[i] = i * dk for i = 1..length, with both coefficient arrays
GridBuilt(self) ==
    /\ self.r = [i \in 1..(IF self.length > 0 THEN self.length ELSE 0) |->
                    Mul(FromInt(i), self.dr)]
    /\ self.k = [i \in 1..(IF self.length > 0 THEN self.length ELSE 0) |->
                    Mul(FromInt(i), self.dk)]
    /\ self.DST_II_coeffs =
           [i \in 1..Len(self.r) |-> Mul(Mul(Mul(FromInt(2), Pi), self.r[i]), self.dr)]
    /\ self.DST_III_coeffs =
           [i \in 1..Len(self.k) |->
               Div(Mul(self.k[i], self.dk), Mul(Mul(FromInt(4), Pi), Pi))]

NoGrid(self) ==
    /\ self.r = Unset
    /\ self.k = Unset
    /\ self.DST_II_coeffs = Unset
    /\ self.DST_III_coeffs = Unset

\* C1: on every Domain the caller holds whose length, dr and dk are positive,
\* whatever assignments to length, dr or dk it has received, dr * dk * length = pi
C1_RelationAfterAnyAssignment ==
    (alive /\ AllPositive(domain)) => Relation(domain)

\* C5: Domain(length, dr, dk) returns an object only if exactly one of dr and dk
\* was given; with both or neither it raises ValueError and no grid attribute is
\* ever assigned; with exactly one (and no division by zero) the object is
\* returned, the other spacing is pi / (given * length) and the grid is built
C5_ExactlyOneSpacing ==
    (last.op = "__init__") =>
        LET length == last.args[1]
            dr == last.args[2]
            dk == last.args[3]
            one == (dr = None) # (dk = None)
            given == IF dr # None THEN dr ELSE dk
        IN  /\ alive => one
            /\ ~one => (~alive /\ last.err = "ValueError" /\ NoGrid(domain))
            /\ (one /\ length # 0 /\ given[1] # 0) =>
                   /\ alive
                   /\ last.err = "none"
                   /\ domain.length = length
                   /\ dr # None =>
                          (domain.dr = dr
                           /\ domain.dk = Div(Pi, Mul(dr, FromInt(length))))
                   /\ dk # None =>
                          (domain.dk = dk
                           /\ domain.dr = Div(Pi, Mul(dk, FromInt(length))))
                   /\ GridBuilt(domain)

\* C5 witness: Domain(2, dr = 1, dk = 1) was refused and left no grid
C5_Witness ==
    /\ last.op = "__init__"
    /\ last.args = <<2, FromInt(1), FromInt(1)>>
    /\ last.err = "ValueError"
    /\ ~alive
    /\ NoGrid(domain)

\* C6: no Domain the caller holds has a non-positive dr, dk or length
C6_NoNonPositiveSpacing ==
    alive => AllPositive(domain)

\* C9: on a Domain whose length, dr and dk are positive, to_real(to_fourier(f))
\* is f for every array f sampled on its grid
C9_RoundTrip ==
    (alive /\ last.op = "to_real" /\ AllPositive(domain)) => last.out = last.orig

-----------------------------------------------------------------------------
(* Properties of the MatrixArray transforms *)

\* C3: MatrixArray_to_fourier on a MatrixArray tagged Fourier, and
\* MatrixArray_to_real on one tagged Real, raise ValueError and leave the
\* entries and the tag of the MatrixArray as they were
C3_AlreadyInTargetSpace ==
    /\ (mlast.op = "MatrixArray_to_fourier" /\ mlast.before.space = "Fourier") =>
           (mlast.err = "ValueError" /\ ma = mlast.before)
    /\ (mlast.op = "MatrixArray_to_real" /\ mlast.before.space = "Real") =>
           (mlast.err = "ValueError" /\ ma = mlast.before)

\* C3 witness: MatrixArray_to_fourier was refused on a rank 2 array in Fourier space
C3_Witness ==
    /\ mlast.op = "MatrixArray_to_fourier"
    /\ mlast.before.space = "Fourier"
    /\ mlast.before.rank = 2
    /\ mlast.err = "ValueError"
    /\ ma = mlast.before

-----------------------------------------------------------------------------
(* Properties of solvation_potential *)

Started == closure # "none"

Ended == Started /\ pc = "idle"

FieldsAsBefore == \A f \in FieldNames : PRISM[f] = pre[f]

\* C2: a call with a closure other than 'HNC' and 'PY' that has failed has left
\* the tags and the entries of directCorr, totalCorr and omega as they were
C2_UnknownClosureNoMutation ==
    (Ended /\ raised # "none" /\ closure \notin {"HNC", "PY"}) => FieldsAsBefore

\* C4: a call on a system of rank 1 transforms no field, binds and returns no
\* result, and ends with the assertion error, whatever the closure and the tags
C4_SingleComponentNoTransform ==
    (Started /\ PRISM.rank = 1) =>
        /\ FieldsAsBefore
        /\ log = NoLogEntries
        /\ ~IsBound(psi)
        /\ ~IsBound(returned)
        /\ pc \in {"l91", "idle"}
        /\ pc = "idle" => raised = "AssertionError"

\* C4 witness: the PY call on a rank 1 system whose three fields are tagged Real
\* has ended with the assertion error
C4_Witness ==
    /\ Ended
    /\ PRISM.rank = 1
    /\ closure = "PY"
    /\ \A f \in FieldNames : pre[f].space = "Real" /\ PRISM[f].space = "Real"
    /\ raised = "AssertionError"

\* C7: of two calls in a row with the same closure, the first of which returned,
\* the second returns the same Real-space result, raises nothing and transforms
\* no field
C7_SecondCallSameResult ==
    \A n \in 1..(Len(history) - 1) :
        (history[n].closure = history[n + 1].closure /\ history[n].raised = "none") =>
            /\ history[n + 1].raised = "none"
            /\ history[n + 1].returned = history[n].returned
            /\ history[n + 1].returned.space = "Real"
            /\ history[n + 1].log = NoLogEntries

\* C7 witness: two PY calls in a row, the first of which transformed all three
\* fields, have returned the same result
C7_Witness ==
    /\ Len(history) >= 2
    /\ history[1].closure = "PY" /\ history[2].closure = "PY"
    /\ history[1].log = [f \in FieldNames |-> 1]
    /\ history[1].raised = "none" /\ history[2].raised = "none"
    /\ history[2].returned = history[1].returned
    /\ history[2].returned.space = "Real"

\* -kT * sum over a, b of C[i, a] * S[a, b] * C[b, j] at the grid point g
TripleProduct(C, S, kT, rank, i, j, g) ==
    Mul(Neg(kT),
        SumSeq([n \in 1..(rank * rank) |->
            Mul(Mul(C.data[<<i, ((n - 1) \div rank) + 1>>].v[g],
                    S.data[<<((n - 1) \div rank) + 1, ((n - 1) % rank) + 1>>].v[g]),
                C.data[<<((n - 1) % rank) + 1, j>>].v[g])]))

\* C8: with closure HNC on a system of rank 2, the array handed to
\* MatrixArray_to_real is tagged Fourier and its entry (i, j) at every grid point
\* g is -kT * (C(g) . S(g) . C(g))[i, j], the product of the rank x rank matrices
\* of the Fourier-space direct correlation C and the structure factor S at g
C8_HNCMatrixProduct ==
    (IsBound(psiF) /\ closure = "HNC" /\ PRISM.rank = 2) =>
        /\ psiF.space = "Fourier"
        /\ PRISM.directCorr.space = "Fourier"
        /\ AllPlain(PRISM.directCorr) /\ AllPlain(structureFactor) /\ AllPlain(psiF)
        /\ structureFactor = structure_factor(PRISM)
        /\ \A ij \in Pairs(2) :
               psiF.data[ij].v =
                   [g \in 1..domain.length |->
                       TripleProduct(PRISM.directCorr, structureFactor, PRISM.kT, 2,
                                     ij[1], ij[2], g)]

\* C8 witness: an HNC call on a rank 2 system whose directCorr was tagged Real has
\* handed over a potential that differs from the entry-by-entry product
C8_Witness ==
    /\ IsBound(psiF) /\ closure = "HNC" /\ PRISM.rank = 2
    /\ pre["directCorr"].space = "Real"
    /\ psiF # psi_HNC_Elementwise(PRISM, structureFactor)
    /\ psi.space = "Real"

\* C10: a call with rank > 1 and closure HNC or PY raises nothing, transforms each
\* field at most once and only if it was tagged Real, leaves a field that was
\* tagged Fourier untouched, and when it has returned each field that was tagged
\* Real has been transformed to Fourier space exactly once, all three fields are
\* tagged Fourier and the returned array is tagged Real
C10_TransformsExactlyRealFields ==
    (Started /\ PRISM.rank > 1 /\ closure \in {"HNC", "PY"}) =>
        /\ raised = "none"
        /\ \A f \in FieldNames :
               /\ log[f] <= (IF pre[f].space = "Real" THEN 1 ELSE 0)
               /\ pre[f].space = "Fourier" => PRISM[f] = pre[f]
        /\ pc = "idle" =>
               /\ \A f \in FieldNames :
                      /\ log[f] = (IF pre[f].space = "Real" THEN 1 ELSE 0)
                      /\ PRISM[f].space = "Fourier"
                      /\ pre[f].space = "Real" =>
                             PRISM[f] = MatrixArray_to_fourier(domain, pre[f]).obj
               /\ returned.space = "Real"

\* C10 witness: a call has returned on a system whose directCorr was tagged
\* Fourier and whose totalCorr and omega were tagged Real
C10_Witness ==
    /\ Ended /\ PRISM.rank = 2 /\ closure = "HNC" /\ raised = "none"
    /\ pre["directCorr"].space = "Fourier"
    /\ pre["totalCorr"].space = "Real" /\ pre["omega"].space = "Real"
    /\ log = [f \in FieldNames |-> IF f = "directCorr" THEN 0 ELSE 1]
    /\ \A f \in FieldNames : PRISM[f].space = "Fourier"
    /\ returned.space = "Real"

=============================================================================
